---- MODULE Spec2Model ----
(***************************************************************************)
(* State-machine model of the CAENHV controller class (src/CAENHV.py):     *)
(* the auto_connect_disconnect guard, reconfig/disconnect, the channel     *)
(* parameter accessors, the ramp-aware set_channel_HV sequencer and        *)
(* power_down_all_channels.                                                *)
(*                                                                         *)
(* The vendor library (caen_libs.caenhvwrapper) is the environment: every  *)
(* vendor call either answers or raises hvwrapper.Error, which is a        *)
(* RuntimeError.  An operation is one atomic action; the vendor calls it   *)
(* issued, the sleeps it performed, the message it printed and the way it  *)
(* ended are recorded in `last`.  A read may answer a value, answer None   *)
(* (the code tests for it) or raise.                                       *)
(***************************************************************************)
EXTENDS Integers, Sequences, FiniteSets, TLC

VARIABLES device, slots, verbose, now, dispatched_until, last

vars == <<device, slots, verbose, now, dispatched_until, last>>

-----------------------------------------------------------------------------
(* Bounds of the model                                                     *)

\* time.time() ranges over 0..MaxTime
MaxTime == 1
\* voltages (targets and VMon readings) range over 0..MaxVolt
MaxVolt == 2
\* ramp rates (RUp, RDWn readings) range over 0..MaxRate
MaxRate == 2
\* a vendor failure script makes the k-th vendor call of a report raise, k <= MaxFailAt
MaxFailAt == 2

-----------------------------------------------------------------------------
(* Values                                                                  *)

\* self.device = None
NoDev == 0

\* an empty slot of the crate map (board is None); a board is its n_channel >= 1
NoBoard == 0

\* status == 255: the channel is not in operating status
NotReadyStatus == 255

\* the fixed settle margin of time.sleep(nsecond+2)
SettleMargin == 2

\* time.sleep(2) after power_down_all_channels, config_channel, power_*_channel
FixedSleep == 2

Volts == 0..MaxVolt

Rates == 0..MaxRate

\* Status words the vendor may answer: off, on, off after over-current, not ready
StatusVals == {0, 1, 8, NotReadyStatus}

\* hvwrapper.ParamMode
Modes == {"RDONLY", "WRONLY", "RDWR"}

\* crate maps get_crate_map() may answer: slot -> n_channel or None
CrateMaps == { <<1, NoBoard>>, <<NoBoard, 2>> }

\* self.slots = []
EmptySlots == << >>

\* (slot, channel) pairs operations are called on; slots are 0-based as in enumerate()
Targets == { <<1, 0>> }

\* default param_list of print_channel_info
DefaultParamList == <<"V0Set", "I0Set", "VMon", "IMon", "Status", "Pw", "Temp">>

\* names the vendor lists in get_ch_param_info()
ChParams == {"V0Set", "I0Set", "VMon", "IMon", "Status", "Pw", "Temp", "RUp", "RDWn"}

-----------------------------------------------------------------------------
(* Vendor calls and results of operations                                  *)

\* one vendor call: its function, arguments, the value written or read, how it ended
Call(fn, slot, ch, param, value, res) ==
    [fn |-> fn, slot |-> slot, ch |-> ch, param |-> param, value |-> value, res |-> res]

ConnCall(fn, res) == Call(fn, 0, 0, "", 0, res)

\* what a vendor read answers: a value, None, or it raises hvwrapper.Error
ReadOutcomes(Vals) ==
    {[kind |-> "val", v |-> x] : x \in Vals}
        \cup {[kind |-> "none", v |-> 0], [kind |-> "err", v |-> 0]}

ReadCall(slot, ch, param, o) ==
    Call("get_ch_param", slot, ch, param, o.v,
         IF o.kind = "err" THEN "err" ELSE IF o.kind = "none" THEN "none" ELSE "ok")

WriteCall(slot, ch, param, value, ok) ==
    Call("set_ch_param", slot, ch, param, value, IF ok THEN "ok" ELSE "err")

\* Python's None as a return value, and a returned number
RetNone == [kind |-> "None", v |-> 0]

RetVal(x) == [kind |-> "val", v |-> x]

\* the state after a piece of code ran, with what it did:
\*   exc   the exception that escapes ("none" when it returns)
\*   cause the __cause__ of that exception (raise ... from e)
\*   ret   the value returned, msg the message printed, slept the time.sleep() calls
Res(dev, sl, log, exc, cause, ret, msg, slept) ==
    [device |-> dev, slots |-> sl, log |-> log, exc |-> exc, cause |-> cause,
     ret |-> ret, msg |-> msg, slept |-> slept]

Returns(dev, sl, log, ret, msg, slept) == Res(dev, sl, log, "none", "none", ret, msg, slept)

Raises(dev, sl, log, exc, msg, slept) == Res(dev, sl, log, exc, "none", RetNone, msg, slept)

\* except RuntimeError: hvwrapper.Error derives from RuntimeError
IsRuntimeError(exc) == exc \in {"Dispatched", "VendorError", "ConnectFailure"}

-----------------------------------------------------------------------------
(* Connection lifecycle                                                    *)

\* the handle Device.open() answers: a connection other than the one held
NewHandle(dev) == IF dev = 1 THEN 2 ELSE 1

\* faulty variant: the cool-down still refuses at the timestamp itself
Dispatched_inclusive(until, t) == until >= t

\* getattr(self, '_dispatched_until', 0) > time.time()
Dispatched(until, t) == until > t

\* reconfig(): the outcomes of one call from device dev, slots sl
reconfig_outcomes(dev, sl, until, t) ==
    IF Dispatched(until, t)
    THEN { Raises(dev, sl, << >>, "Dispatched", "", << >>) }
    ELSE { Raises(dev, sl, <<ConnCall("open", "err")>>, "VendorError", "", << >>),
           Raises(NewHandle(dev), sl,
                  <<ConnCall("open", "ok"), ConnCall("get_crate_map", "err")>>,
                  "VendorError", "", << >>) }
         \cup { Returns(NewHandle(dev), m,
                        <<ConnCall("open", "ok"), ConnCall("get_crate_map", "ok")>>,
                        RetNone, "", << >>) : m \in CrateMaps }

\* faulty variant: the reference is cleared only when close() succeeds (no finally)
disconnect_outcomes_no_finally(dev, sl) ==
    IF dev = NoDev
    THEN { Returns(NoDev, sl, << >>, RetNone, "", << >>) }
    ELSE { Returns(NoDev, sl, <<ConnCall("close", "ok")>>, RetNone, "", << >>),
           Returns(dev, sl, <<ConnCall("close", "err")>>, RetNone, "", << >>) }

\* faulty variant: only the vendor's "not connected" errors are swallowed, so
\* the AttributeError of close() on None and the other close failures escape
disconnect_outcomes_reraise(dev, sl) ==
    IF dev = NoDev
    THEN { Raises(NoDev, sl, << >>, "AttributeError", "", << >>) }
    ELSE { Returns(NoDev, sl, <<ConnCall("close", "ok")>>, RetNone, "", << >>),
           Returns(NoDev, sl, <<ConnCall("close", "err")>>, RetNone, "", << >>),
           Raises(NoDev, sl, <<ConnCall("close", "err")>>, "VendorError", "", << >>) }

\* disconnect(): close() on None raises AttributeError, swallowed like every
\* other exception; the reference is always cleared
disconnect_outcomes(dev, sl) ==
    IF dev = NoDev
    THEN { Returns(NoDev, sl, << >>, RetNone, "", << >>) }
    ELSE { Returns(NoDev, sl, <<ConnCall("close", "ok")>>, RetNone, "", << >>),
           Returns(NoDev, sl, <<ConnCall("close", "err")>>, RetNone, "", << >>) }

\* no_device = self.device is None
NoDevice(dev) == dev = NoDev

\* faulty variant: the wrapper disconnects after every call
ShouldDisconnect_always(no_device) == TRUE

\* if no_device: -- only disconnect if we had to connect here
ShouldDisconnect(no_device) == no_device

\* the wrapper re-raises a reconfig failure only when no device came of it
ReconfigFails(rc) == IsRuntimeError(rc.exc) /\ rc.device = NoDev

\* the wrapper's first step: self.reconfig() if no_device, nothing otherwise
Connect(dev, sl, until, t) ==
    IF NoDevice(dev)
    THEN reconfig_outcomes(dev, sl, until, t)
    ELSE { Returns(dev, sl, << >>, RetNone, "", << >>) }

\* the (device, slots) pairs the wrapped function may be run with
Entries(dev, sl, until, t) ==
    { <<rc.device, rc.slots>> : rc \in Connect(dev, sl, until, t) }

\* auto_connect_disconnect: the outcomes of func wrapped, from device dev;
\* body[<<d, s>>] is the set of outcomes of func run with device d and slots s
Wrapper(dev, sl, until, t, body) ==
    LET no_device == NoDevice(dev)
        opened == Connect(dev, sl, until, t)
        After(rc, b) ==
            IF ShouldDisconnect(no_device)
            THEN { Res(d.device, d.slots, rc.log \o b.log \o d.log,
                       b.exc, b.cause, b.ret, b.msg, b.slept)
                   : d \in disconnect_outcomes(b.device, b.slots) }
            ELSE { Res(b.device, b.slots, rc.log \o b.log,
                       b.exc, b.cause, b.ret, b.msg, b.slept) }
        Run(rc) ==
            IF rc.exc # "none" /\ ReconfigFails(rc)
            THEN { Res(rc.device, rc.slots, rc.log, "ConnectFailure", rc.exc,
                       RetNone, "", << >>) }
            ELSE UNION { After(rc, b) : b \in body[<<rc.device, rc.slots>>] }
    IN  UNION { Run(rc) : rc \in opened }

-----------------------------------------------------------------------------
(* Channel parameter accessors                                             *)

InfoCall(slot, ch, ok) ==
    Call("get_ch_param_info", slot, ch, "", 0, IF ok THEN "ok" ELSE "err")

\* get_ch_param_prop answers the parameter's mode (kept in res) or raises
PropCall(slot, ch, param, res) == Call("get_ch_param_prop", slot, ch, param, 0, res)

\* param not in self.device.get_ch_param_info(slot, ch)
ParamListed(param) == param \in ChParams

\* faulty variant: the mode is not looked at before reading
ReadAllowed_always(mode) == TRUE

\* read_channel_param: param_prop.mode is not hvwrapper.ParamMode.WRONLY
ReadAllowed(mode) == mode # "WRONLY"

\* set_channel_param: param_prop.mode is not hvwrapper.ParamMode.WRONLY
WriteAllowed(mode) == mode # "WRONLY"

\* round(x, 2) of the model's integer readings
Round2(x) == x

read_channel_param_body(d, s, slot, ch, param) ==
    LET info(ok) == <<InfoCall(slot, ch, ok)>>
        prop(res) == info(TRUE) \o <<PropCall(slot, ch, param, res)>>
        Answer(mode, o) ==
            LET log == prop(mode) \o <<ReadCall(slot, ch, param, o)>>
            IN  IF o.kind = "err"  THEN Returns(d, s, log, RetNone, "", << >>)
                ELSE IF o.kind = "none" THEN Raises(d, s, log, "TypeError", "", << >>)
                ELSE Returns(d, s, log, RetVal(Round2(o.v)), "", << >>)
        ByMode(mode) ==
            IF ReadAllowed(mode)
            THEN { Answer(mode, o) : o \in ReadOutcomes(Volts) }
            ELSE { Raises(d, s, prop(mode), "ParamModeViolation", "", << >>) }
    IN  { Raises(d, s, info(FALSE), "VendorError", "", << >>) }
        \cup IF ~ParamListed(param)
             THEN { Raises(d, s, info(TRUE), "ParamNotFound", "", << >>) }
             ELSE { Raises(d, s, prop("err"), "VendorError", "", << >>) }
                  \cup UNION { ByMode(mode) : mode \in Modes }

set_channel_param_body(d, s, slot, ch, param, value) ==
    LET info(ok) == <<InfoCall(slot, ch, ok)>>
        prop(res) == info(TRUE) \o <<PropCall(slot, ch, param, res)>>
        ByMode(mode) ==
            IF WriteAllowed(mode)
            THEN { Returns(d, s, prop(mode) \o <<WriteCall(slot, ch, param, value, TRUE)>>,
                           RetNone, "", << >>),
                   Raises(d, s, prop(mode) \o <<WriteCall(slot, ch, param, value, FALSE)>>,
                          "VendorError", "", << >>) }
            ELSE { Raises(d, s, prop(mode), "ParamModeViolation", "", << >>) }
    IN  { Raises(d, s, info(FALSE), "VendorError", "", << >>) }
        \cup IF ~ParamListed(param)
             THEN { Raises(d, s, info(TRUE), "ParamNotFound", "", << >>) }
             ELSE { Raises(d, s, prop("err"), "VendorError", "", << >>) }
                  \cup UNION { ByMode(mode) : mode \in Modes }

-----------------------------------------------------------------------------
(* Reports: straight-line sequences of vendor reads                        *)

\* calls issued in order until the k-th raises (k = 0, or k past the end: none raises)
Scripted(d, s, calls, k, slept) ==
    IF k \in 1..Len(calls)
    THEN Raises(d, s, [i \in 1..k |-> IF i = k THEN [calls[i] EXCEPT !.res = "err"]
                                              ELSE calls[i]],
                "VendorError", "", << >>)
    ELSE Returns(d, s, calls, RetNone, "", slept)

RECURSIVE ParamCalls(_, _, _, _)
\* for param_name in param_list: get_ch_param_prop, and get_ch_param unless WRONLY
ParamCalls(slot, ch, plist, mode) ==
    IF plist = << >> THEN << >>
    ELSE <<PropCall(slot, ch, Head(plist), mode)>>
         \o (IF mode # "WRONLY"
             THEN <<Call("get_ch_param", slot, ch, Head(plist), 0, "ok")>>
             ELSE << >>)
         \o ParamCalls(slot, ch, Tail(plist), mode)

\* what the vendor does during one report: the mode it answers for the listed
\* parameters (the same for all of them) and the call that raises, if one does
ReportScripts ==
    { [mode |-> m, k |-> 0] : m \in Modes } \cup { [mode |-> "RDWR", k |-> k] : k \in 1..MaxFailAt }

print_channel_info_body(d, s, slot, ch, param_list) ==
    { Scripted(d, s,
               <<InfoCall(slot, ch, TRUE)>> \o ParamCalls(slot, ch, param_list, v.mode),
               v.k, << >>)
      : v \in ReportScripts }

-----------------------------------------------------------------------------
(* Ramp-aware setpoint sequencer                                           *)

\* faulty variant: the not-ready code is not singled out
NotOperating_never(status) == FALSE

\* status == 255
NotOperating(status) == status = NotReadyStatus

\* status & 0x1 == 0 -- channel is off
ChannelIsOff(status) == status % 2 = 0

\* faulty variant: any non-zero status counts as on
ChannelIsOn_nonzero(status) == status # 0

\* status & 0x1 == 1 -- channel is on
ChannelIsOn(status) == status % 2 = 1

\* faulty variant: the comparison is reversed
RampsUp_reversed(hv_value, current_hv) == hv_value < current_hv

\* if hv_value > current_hv
RampsUp(hv_value, current_hv) == hv_value > current_hv

\* faulty variant: the quotient is truncated instead of rounded up
RampSeconds_floor(delta, rate) == delta \div rate

\* ceil(delta / (rate * division_factor)) for delta >= 0 and rate > 0
RampSeconds(delta, rate) ==
    IF delta % rate = 0 THEN delta \div rate ELSE (delta \div rate) + 1

\* time.sleep(nsecond+2)
SleepFor(nsecond) == nsecond + SettleMargin

set_channel_HV_body(d, s, until, t, verb, slot, ch, hv_value) ==
    LET rd(param, o) == <<ReadCall(slot, ch, param, o)>>
        wr(param, value, ok) == <<WriteCall(slot, ch, param, value, ok)>>
        \* if self.verbose: self.print_channel_info(slot, ch)
        Report(log, slept) ==
            IF verb
            THEN { Res(p.device, p.slots, log \o p.log, p.exc, p.cause, RetNone,
                       "setting", slept)
                   : p \in Wrapper(d, s, until, t,
                                   [c \in Entries(d, s, until, t) |->
                                       print_channel_info_body(c[1], c[2], slot, ch,
                                                               DefaultParamList)]) }
            ELSE { Returns(d, s, log, RetNone, "setting", slept) }
        \* from the V0Set write on; nsecond is known
        Apply(log, status, nsecond) ==
            { Raises(d, s, log \o wr("V0Set", hv_value, FALSE), "VendorError", "", << >>) }
            \cup
            LET log1 == log \o wr("V0Set", hv_value, TRUE)
            IN  IF ChannelIsOff(status)
                THEN { Raises(d, s, log1 \o wr("Pw", 1, FALSE), "VendorError", "", << >>) }
                     \cup Report(log1 \o wr("Pw", 1, TRUE), <<SleepFor(nsecond)>>)
                ELSE Report(log1, <<SleepFor(nsecond)>>)
        Plan(log, status, cur, up, dn) ==
            IF cur.kind = "none" \/ up.kind = "none" \/ dn.kind = "none"
            THEN { Returns(d, s, log, RetNone, "warning: missing parameters", << >>) }
            ELSE IF RampsUp(hv_value, cur.v)
                 THEN IF up.v = 0
                      THEN { Raises(d, s, log, "ZeroDivisionError", "", << >>) }
                      ELSE Apply(log, status, RampSeconds(hv_value - cur.v, up.v))
                 ELSE IF dn.v = 0
                      THEN { Raises(d, s, log, "ZeroDivisionError", "", << >>) }
                      ELSE Apply(log, status, RampSeconds(cur.v - hv_value, dn.v))
        ReadDown(log, status, cur, up) ==
            UNION { IF dn.kind = "err"
                    THEN { Raises(d, s, log \o rd("RDWn", dn), "VendorError", "", << >>) }
                    ELSE Plan(log \o rd("RDWn", dn), status, cur, up, dn)
                    : dn \in ReadOutcomes(Rates) }
        ReadUp(log, status, cur) ==
            UNION { IF up.kind = "err"
                    THEN { Raises(d, s, log \o rd("RUp", up), "VendorError", "", << >>) }
                    ELSE ReadDown(log \o rd("RUp", up), status, cur, up)
                    : up \in ReadOutcomes(Rates) }
        ReadVMon(log, status) ==
            UNION { IF cur.kind = "err"
                    THEN { Raises(d, s, log \o rd("VMon", cur), "VendorError", "", << >>) }
                    ELSE ReadUp(log \o rd("VMon", cur), status, cur)
                    : cur \in ReadOutcomes(Volts) }
        ByStatus(st) ==
            LET log == rd("Status", st)
            IN  IF st.kind = "err"
                THEN { Raises(d, s, log, "VendorError", "", << >>) }
                ELSE IF st.kind = "none"
                THEN { Returns(d, s, log, RetNone, "warning: could not read Status", << >>) }
                ELSE IF NotOperating(st.v)
                THEN { Returns(d, s, log \o wr("V0Set", hv_value, TRUE), RetNone,
                               "error: only updating V0Set", << >>),
                       Raises(d, s, log \o wr("V0Set", hv_value, FALSE), "VendorError",
                              "error: only updating V0Set", << >>) }
                ELSE ReadVMon(log, st.v)
    IN  UNION { ByStatus(st) : st \in ReadOutcomes(StatusVals) }

-----------------------------------------------------------------------------
(* power_down_all_channels                                                 *)

\* if board is None: continue
BoardPresent(board) == board # NoBoard

RECURSIVE ChannelsFrom(_, _)
\* the (slot, ch) pairs of enumerate(self.slots) x range(board.n_channel), from
\* 1-based position i on, in loop order; Python's slot index is i - 1
ChannelsFrom(s, i) ==
    IF i > Len(s) THEN << >>
    ELSE (IF BoardPresent(s[i]) THEN [c \in 1..s[i] |-> <<i - 1, c - 1>>] ELSE << >>)
         \o ChannelsFrom(s, i + 1)

RECURSIVE PowerDownLoop(_, _, _, _)
PowerDownLoop(d, s, chans, log) ==
    IF chans = << >>
    THEN { Returns(d, s, log, RetNone, "", <<FixedSleep>>) }
    ELSE LET slot == Head(chans)[1]
             ch == Head(chans)[2]
             Step(o) ==
                 LET log1 == log \o <<ReadCall(slot, ch, "Status", o)>>
                 IN  IF o.kind = "err" THEN { Raises(d, s, log1, "VendorError", "", << >>) }
                     ELSE IF o.kind = "none" THEN { Raises(d, s, log1, "TypeError", "", << >>) }
                     ELSE IF ChannelIsOn(o.v)
                     THEN { Raises(d, s, log1 \o <<WriteCall(slot, ch, "Pw", 0, FALSE)>>,
                                   "VendorError", "", << >>) }
                          \cup PowerDownLoop(d, s, Tail(chans),
                                             log1 \o <<WriteCall(slot, ch, "Pw", 0, TRUE)>>)
                     ELSE PowerDownLoop(d, s, Tail(chans), log1)
         IN  UNION { Step(o) : o \in ReadOutcomes(StatusVals) }

power_down_all_channels_body(d, s) == PowerDownLoop(d, s, ChannelsFrom(s, 1), << >>)

-----------------------------------------------------------------------------
(* The other wrapped operations                                            *)

\* names the vendor lists in get_sys_prop_list() and get_bd_param_info()
SysProps == <<"ModelName", "SwRelease">>

BdParams == <<"BdStatus">>

\* the vendor's get_ch_param_info() list, in its order
ChParamList == <<"V0Set", "I0Set", "RUp", "RDWn", "VMon", "IMon", "Status", "Pw", "Temp">>

print_system_info_body(d, s) ==
    { Scripted(d, s,
               <<Call("get_sys_prop_list", 0, 0, "", 0, "ok")>>
                   \o [i \in 1..Len(SysProps) |->
                          Call("get_sys_prop", 0, 0, SysProps[i], 0, "ok")],
               k, << >>)
      : k \in 0..MaxFailAt }

RECURSIVE BoardParamCalls(_, _, _)
\* for param_name in param_list: get_bd_param_prop, and get_bd_param unless WRONLY
BoardParamCalls(slot, plist, mode) ==
    IF plist = << >> THEN << >>
    ELSE <<Call("get_bd_param_prop", slot, 0, Head(plist), 0, mode)>>
         \o (IF mode # "WRONLY"
             THEN <<Call("get_bd_param", slot, 0, Head(plist), 0, "ok")>>
             ELSE << >>)
         \o BoardParamCalls(slot, Tail(plist), mode)

\* if len(param_list) == 0: param_list = <the vendor's list>
OrAll(param_list, all) == IF Len(param_list) = 0 THEN all ELSE param_list

print_board_info_body(d, s, slot, param_list) ==
    { Scripted(d, s,
               <<Call("get_bd_param_info", slot, 0, "", 0, "ok")>>
                   \o BoardParamCalls(slot, OrAll(param_list, BdParams), v.mode),
               v.k, << >>)
      : v \in ReportScripts }

RECURSIVE CrateChannelCalls(_, _, _, _, _, _)
\* for ch in range(board.n_channel), from channel ch on
CrateChannelCalls(slot, ch, n, chlist, param_list, mode) ==
    IF ch >= n THEN << >>
    ELSE (IF chlist # {} /\ ch \notin chlist
          THEN << >>
          ELSE <<InfoCall(slot, ch, TRUE)>>
               \o ParamCalls(slot, ch, OrAll(param_list, ChParamList), mode))
         \o CrateChannelCalls(slot, ch + 1, n, chlist, param_list, mode)

RECURSIVE CrateCalls(_, _, _, _, _, _)
\* for slot, board in enumerate(self.slots), from 1-based position i on
CrateCalls(s, i, slotlist, chlist, param_list, mode) ==
    IF i > Len(s) THEN << >>
    ELSE (IF ~BoardPresent(s[i]) \/ (slotlist # {} /\ (i - 1) \notin slotlist)
          THEN << >>
          ELSE <<Call("get_bd_param_info", i - 1, 0, "", 0, "ok")>>
               \o BoardParamCalls(i - 1, BdParams, mode)
               \o CrateChannelCalls(i - 1, 0, s[i], chlist, param_list, mode))
         \o CrateCalls(s, i + 1, slotlist, chlist, param_list, mode)

print_crate_info_body(d, s, slotlist, chlist, param_list) ==
    { Scripted(d, s, CrateCalls(s, 1, slotlist, chlist, param_list, v.mode), v.k, << >>)
      : v \in ReportScripts }

\* the thirteen writes of config_channel with its default arguments
ConfigWrites(slot, ch, V0Set, I0Set) ==
    LET w(param, value) == WriteCall(slot, ch, param, value, TRUE)
    IN  << w("V0Set", V0Set), w("I0Set", I0Set), w("V1Set", 0), w("I1Set", 1010),
           w("POn", 0), w("PDwn", 0), w("RUp", 20), w("RDWn", 20), w("Trip", 10),
           w("SVMax", 1000), w("ImRange", 0), w("ZCDetect", 1), w("ZCAdjust", 0) >>

config_channel_body(d, s, slot, ch, V0Set, I0Set) ==
    LET calls == ConfigWrites(slot, ch, V0Set, I0Set)
    IN  { Scripted(d, s, calls, k, <<FixedSleep>>) : k \in 0..Len(calls) }

\* power_down_channel / power_on_channel: not wrapped themselves; they call the
\* wrapped set_channel_param(slot, ch, 'Pw', on) and then time.sleep(2)
power_channel_outcomes(dev, sl, until, t, slot, ch, on) ==
    { IF r.exc = "none" THEN [r EXCEPT !.slept = <<FixedSleep>>] ELSE r
      : r \in Wrapper(dev, sl, until, t,
                      [c \in Entries(dev, sl, until, t) |->
                          set_channel_param_body(c[1], c[2], slot, ch, "Pw", on)]) }

-----------------------------------------------------------------------------
(* The state machine                                                       *)

Args(slot, ch, param, value) == [slot |-> slot, ch |-> ch, param |-> param, value |-> value]

NoArgs == Args(0, 0, "", 0)

\* the record of a finished operation: dev0 is self.device when it was called
Done(op, guarded, dev0, a, r) ==
    [op |-> op, guarded |-> guarded, dev0 |-> dev0, args |-> a,
     log |-> r.log, exc |-> r.exc, cause |-> r.cause, ret |-> r.ret,
     msg |-> r.msg, slept |-> r.slept]

\* no call is in progress and the last result has been taken by the caller
Idle == Done("idle", FALSE, NoDev, NoArgs, Returns(NoDev, EmptySlots, << >>, RetNone, "", << >>))

\* CAENHV.__init__ with a valid systemtype and linktype: hvwrapper.Error is caught
init_outcomes ==
    { Returns(NoDev, EmptySlots, <<ConnCall("open", "err")>>, RetNone,
              "Failed to connect", << >>),
      Returns(NoDev, EmptySlots, <<ConnCall("open", "ok"), ConnCall("get_crate_map", "err")>>,
              RetNone, "Failed to connect", << >>) }
    \cup { Returns(NoDev, m,
                   <<ConnCall("open", "ok"), ConnCall("get_crate_map", "ok"),
                     Call("get_sys_prop_list", 0, 0, "", 0, "err")>>,
                   RetNone, "Failed to connect", << >>) : m \in CrateMaps }
    \cup { Returns(1, m,
                   <<ConnCall("open", "ok"), ConnCall("get_crate_map", "ok"),
                     Call("get_sys_prop_list", 0, 0, "", 0, "ok")>>,
                   RetNone, "", << >>) : m \in CrateMaps }

Init ==
    /\ verbose \in BOOLEAN
    /\ now = 0
    /\ dispatched_until = 0
    /\ \E r \in init_outcomes :
          /\ device = r.device
          /\ slots = r.slots
          /\ last = Done("__init__", FALSE, NoDev, NoArgs, r)

\* the caller is between two calls
Ready == last.op = "idle"

\* one call of an operation, whose possible outcomes are results
Do(op, guarded, a, results) ==
    /\ \E r \in results :
          /\ device' = r.device
          /\ slots' = r.slots
          /\ last' = Done(op, guarded, device, a, r)
    /\ UNCHANGED <<verbose, now, dispatched_until>>

\* the caller takes the result and goes on to its next call
Return ==
    /\ last.op # "idle"
    /\ last' = Idle
    /\ UNCHANGED <<device, slots, verbose, now, dispatched_until>>

\* time.time() advances
Tick ==
    /\ Ready
    /\ now < MaxTime
    /\ now' = now + 1
    /\ UNCHANGED <<device, slots, verbose, dispatched_until, last>>

\* the external dispatcher stores the timestamp until which re-opening is refused
set_dispatched_until ==
    /\ Ready
    /\ \E u \in 0..MaxTime :
          /\ u # dispatched_until
          /\ dispatched_until' = u
    /\ UNCHANGED <<device, slots, verbose, now, last>>

reconfig ==
    /\ Ready
    /\ Do("reconfig", FALSE, NoArgs, reconfig_outcomes(device, slots, dispatched_until, now))

disconnect ==
    /\ Ready
    /\ Do("disconnect", FALSE, NoArgs, disconnect_outcomes(device, slots))

\* the (device, slots) pairs a wrapped method called now may run with
Here == Entries(device, slots, dispatched_until, now)

\* a wrapped method called from outside
Guarded(op, a, body) ==
    Do(op, TRUE, a, Wrapper(device, slots, dispatched_until, now, body))

\* parameter names callers pass: readable, writable, and one the vendor does not list
ParamInputs == {"VMon", "Pw", "Bogus"}

print_system_info ==
    /\ Ready
    /\ Guarded("print_system_info", NoArgs,
               [c \in Here |-> print_system_info_body(c[1], c[2])])

print_board_info ==
    /\ Ready
    /\ \E slot \in {0, 1}, pl \in {<< >>, <<"BdStatus">>} :
           Guarded("print_board_info", Args(slot, 0, "", 0),
                   [c \in Here |-> print_board_info_body(c[1], c[2], slot, pl)])

print_crate_info ==
    /\ Ready
    /\ \E slotlist \in {{}, {0}}, chlist \in {{}, {0}}, pl \in {<< >>, DefaultParamList} :
           Guarded("print_crate_info", NoArgs,
                   [c \in Here |-> print_crate_info_body(c[1], c[2], slotlist, chlist, pl)])

print_channel_info ==
    /\ Ready
    /\ \E tg \in Targets, pl \in {<< >>, DefaultParamList} :
           Guarded("print_channel_info", Args(tg[1], tg[2], "", 0),
                   [c \in Here |->
                       print_channel_info_body(c[1], c[2], tg[1], tg[2], OrAll(pl, ChParamList))])

read_channel_param ==
    /\ Ready
    /\ \E tg \in Targets, param \in ParamInputs :
           Guarded("read_channel_param", Args(tg[1], tg[2], param, 0),
                   [c \in Here |-> read_channel_param_body(c[1], c[2], tg[1], tg[2], param)])

set_channel_param ==
    /\ Ready
    /\ \E tg \in Targets, param \in ParamInputs, value \in {0, 1} :
           Guarded("set_channel_param", Args(tg[1], tg[2], param, value),
                   [c \in Here |->
                       set_channel_param_body(c[1], c[2], tg[1], tg[2], param, value)])

set_channel_HV ==
    /\ Ready
    /\ \E tg \in Targets, hv_value \in Volts :
           Guarded("set_channel_HV", Args(tg[1], tg[2], "", hv_value),
                   [c \in Here |->
                       set_channel_HV_body(c[1], c[2], dispatched_until, now, verbose,
                                           tg[1], tg[2], hv_value)])

power_down_channel ==
    /\ Ready
    /\ \E tg \in Targets :
           Do("power_down_channel", FALSE, Args(tg[1], tg[2], "Pw", 0),
              power_channel_outcomes(device, slots, dispatched_until, now, tg[1], tg[2], 0))

power_on_channel ==
    /\ Ready
    /\ \E tg \in Targets :
           Do("power_on_channel", FALSE, Args(tg[1], tg[2], "Pw", 1),
              power_channel_outcomes(device, slots, dispatched_until, now, tg[1], tg[2], 1))

power_down_all_channels ==
    /\ Ready
    /\ Guarded("power_down_all_channels", NoArgs,
               [c \in Here |-> power_down_all_channels_body(c[1], c[2])])

config_channel ==
    /\ Ready
    /\ \E tg \in Targets, V0Set \in {0, MaxVolt} :
           Guarded("config_channel", Args(tg[1], tg[2], "", V0Set),
                   [c \in Here |-> config_channel_body(c[1], c[2], tg[1], tg[2], V0Set, 1)])

\* the controller over time, used for everything but ramping
Next ==
    \/ Return
    \/ Tick
    \/ set_dispatched_until
    \/ reconfig
    \/ disconnect
    \/ print_system_info
    \/ print_board_info
    \/ print_crate_info
    \/ print_channel_info
    \/ read_channel_param
    \/ set_channel_param
    \/ power_down_channel
    \/ power_on_channel
    \/ power_down_all_channels
    \/ config_channel

Spec == Init /\ [][Next]_vars

\* every wrapped operation, ramping included, at one instant of the clock
NextHV ==
    \/ Return
    \/ set_dispatched_until
    \/ disconnect
    \/ print_system_info
    \/ print_board_info
    \/ print_crate_info
    \/ print_channel_info
    \/ read_channel_param
    \/ set_channel_param
    \/ set_channel_HV
    \/ power_down_channel
    \/ power_on_channel
    \/ power_down_all_channels
    \/ config_channel

SpecHV == Init /\ [][NextHV]_vars

-----------------------------------------------------------------------------
(* Reading the record of the last operation                                *)

IsConnCall(c) == c.fn \in {"open", "get_crate_map", "close"}

IsWrite(c) == c.fn = "set_ch_param"

IsRead(c, param) == c.fn = "get_ch_param" /\ c.param = param

\* the vendor writes of the last operation, in order
Writes == SelectSeq(last.log, IsWrite)

\* the vendor calls of the last operation that are not open/get_crate_map/close
DeviceCalls == SelectSeq(last.log, LAMBDA c : ~IsConnCall(c))

Issued(fn) == \E i \in DOMAIN last.log : last.log[i].fn = fn

\* the wrapper closed what it had opened: close is the last vendor call
ClosedLast == last.log # << >> /\ last.log[Len(last.log)].fn = "close"

-----------------------------------------------------------------------------
(* C1 *)

\* C1: a wrapped operation called with the connection Closed (device None) leaves
\* it Closed when it returns or raises, whatever the wrapped function and the vendor
\* close did; a vendor open that succeeded is followed by a vendor close.
C1_ClosedStaysClosed ==
    (last.guarded /\ last.dev0 = NoDev)
        => /\ device = NoDev
           /\ (\E i \in DOMAIN last.log :
                   last.log[i].fn = "open" /\ last.log[i].res = "ok") => ClosedLast

\* the wrapped function raised and the vendor close failed too
C1_Witness ==
    /\ last.guarded
    /\ last.dev0 = NoDev
    /\ last.exc \notin {"none", "ConnectFailure"}
    /\ ClosedLast
    /\ last.log[Len(last.log)].res = "err"
    /\ device = NoDev

-----------------------------------------------------------------------------
(* C2 *)

\* C2: a wrapped operation called with the connection Open issues no vendor open
\* and no vendor close and leaves the same connection Open; a wrapped operation
\* nested in another one (print_channel_info inside set_channel_HV) neither opens
\* nor closes: an open is only ever the first vendor call, a close the last.
C2_OpenStaysOpen ==
    last.guarded
        => /\ (last.dev0 # NoDev
                  => /\ device = last.dev0
                     /\ \A i \in DOMAIN last.log : ~IsConnCall(last.log[i]))
           /\ \A i \in DOMAIN last.log :
                  /\ last.log[i].fn = "open" => i = 1
                  /\ last.log[i].fn = "close" => i = Len(last.log)

\* set_channel_HV on an open connection, whose nested print_channel_info raised
C2_Witness ==
    /\ last.op = "set_channel_HV"
    /\ last.dev0 # NoDev
    /\ Issued("get_ch_param_info")
    /\ last.exc = "VendorError"
    /\ device = last.dev0

-----------------------------------------------------------------------------
(* C3 *)

\* C3: reconfig() called while time.time() is before _dispatched_until raises the
\* Dispatched error, issues no vendor call and leaves the connection as it was
\* (Closed stays Closed); from the timestamp on it opens as from plain Closed: the
\* vendor open is issued, its success gives an Open connection and its failure a
\* vendor error with the connection unchanged.
C3_RefusedUntilTimestamp ==
    last.op = "reconfig"
        => IF now < dispatched_until
           THEN /\ last.exc = "Dispatched"
                /\ last.log = << >>
                /\ device = last.dev0
           ELSE /\ last.exc # "Dispatched"
                /\ last.log # << >>
                /\ last.log[1].fn = "open"
                /\ last.log[1].res = "ok" => device \notin {NoDev, last.dev0}
                /\ last.log[1].res = "err"
                      => (device = last.dev0 /\ last.exc = "VendorError")
                /\ last.exc = "none" => device # NoDev

\* a refused open from Closed
C3_Witness ==
    /\ last.op = "reconfig"
    /\ now < dispatched_until
    /\ last.dev0 = NoDev
    /\ device = NoDev
    /\ last.exc = "Dispatched"

-----------------------------------------------------------------------------
(* C4 *)

\* the mode get_ch_param_prop answered in the last operation, if it answered
ModeAnswered(mode) ==
    \E i \in DOMAIN last.log :
        last.log[i].fn = "get_ch_param_prop" /\ last.log[i].res = mode

\* C4: set_channel_param on a read-only parameter signals ParamModeViolation and
\* issues no vendor set call; on a write-only or read-write parameter it issues
\* the vendor set call.
C4_ReadOnlyNeverWritten ==
    last.op = "set_channel_param"
        => /\ ModeAnswered("RDONLY")
                => (last.exc = "ParamModeViolation" /\ Writes = << >>)
           /\ (ModeAnswered("WRONLY") \/ ModeAnswered("RDWR")) => Writes # << >>

-----------------------------------------------------------------------------
(* C5 *)

HasRead(param) == \E i \in DOMAIN last.log : IsRead(last.log[i], param)

\* set_channel_HV's own read of param is the first one in the log
FirstRead(param) ==
    CHOOSE i \in DOMAIN last.log :
        /\ IsRead(last.log[i], param)
        /\ \A j \in 1..(i - 1) : ~IsRead(last.log[j], param)

ReadOk(param) == HasRead(param) /\ last.log[FirstRead(param)].res = "ok"

ReadVal(param) == last.log[FirstRead(param)].value

StatusNotReady ==
    last.op = "set_channel_HV" /\ ReadOk("Status") /\ ReadVal("Status") = NotReadyStatus

OneSetpointWrite ==
    /\ Len(Writes) = 1
    /\ Writes[1].param = "V0Set"
    /\ Writes[1].value = last.args.value
    /\ last.slept = << >>

\* C5 as stated: with Status 255, set_channel_HV issues the V0Set write alone, does
\* not sleep, and returns a result marked partial, unlike the None it returns on
\* full success and on abort.
C5_PartialResult ==
    StatusNotReady
        => /\ OneSetpointWrite
           /\ last.exc = "none" => last.ret # RetNone

\* C5 amended: with Status 255, set_channel_HV issues the V0Set write alone (no Pw
\* write) and does not sleep; it prints the "only updating V0Set" error and, the
\* write succeeding, returns None -- the value it returns on full success and on
\* abort too; the write failing, the vendor error escapes.
C5_SetpointOnly ==
    StatusNotReady
        => /\ OneSetpointWrite
           /\ last.msg = "error: only updating V0Set"
           /\ IF Writes[1].res = "ok"
              THEN last.exc = "none" /\ last.ret = RetNone
              ELSE last.exc = "VendorError"

C5_Witness ==
    /\ StatusNotReady
    /\ OneSetpointWrite
    /\ last.exc = "none"
    /\ last.ret = RetNone

-----------------------------------------------------------------------------
(* C6 *)

\* set_channel_HV read an operating Status and the three ramp parameters
Planned ==
    /\ last.op = "set_channel_HV"
    /\ ReadOk("Status") /\ ReadVal("Status") # NotReadyStatus
    /\ ReadOk("VMon") /\ ReadOk("RUp") /\ ReadOk("RDWn")

\* the rate the ramp is divided by, and the voltage difference
RateUsed ==
    IF last.args.value > ReadVal("VMon") THEN ReadVal("RUp") ELSE ReadVal("RDWn")

Delta ==
    IF last.args.value > ReadVal("VMon")
    THEN last.args.value - ReadVal("VMon")
    ELSE ReadVal("VMon") - last.args.value

\* C6: on an operating channel, a zero RUp with target > VMon, or a zero RDWn on the
\* other branch, ends set_channel_HV with ZeroDivisionError before any vendor write
\* and before any sleep.
C6_ZeroRateRaises ==
    (Planned /\ RateUsed = 0)
        => /\ last.exc = "ZeroDivisionError"
           /\ Writes = << >>
           /\ last.slept = << >>

\* rampUpRate == 0 with target > current
C6_Witness ==
    /\ Planned
    /\ last.args.value > ReadVal("VMon")
    /\ ReadVal("RUp") = 0
    /\ ReadVal("RDWn") # 0
    /\ last.exc = "ZeroDivisionError"
    /\ Writes = << >>

-----------------------------------------------------------------------------
(* C7 *)

\* one of set_channel_HV's reads before any write raised at the vendor layer
PreconditionReadFailed ==
    /\ last.op = "set_channel_HV"
    /\ \E i \in DOMAIN last.log :
          /\ last.log[i].fn = "get_ch_param"
          /\ last.log[i].param \in {"Status", "VMon", "RUp", "RDWn"}
          /\ last.log[i].res = "err"
          /\ \A j \in 1..(i - 1) : last.log[j].fn \in {"open", "get_crate_map", "get_ch_param"}

\* C7: a precondition read of set_channel_HV (Status, VMon, RUp, RDWn) failing at
\* the vendor layer makes it abort with a warning: no exception escapes, no vendor
\* write is issued and no sleep is performed.
C7_ReadFailureAborts ==
    PreconditionReadFailed
        => /\ last.exc = "none"
           /\ Writes = << >>
           /\ last.slept = << >>

-----------------------------------------------------------------------------
(* C8 *)

\* the writes of the normal path all succeeded
WritesDone ==
    /\ Writes # << >>
    /\ \A i \in DOMAIN Writes : Writes[i].res = "ok"

\* C8: on the normal path with a positive rate, set_channel_HV sleeps once, for
\* waitSeconds + 2, waitSeconds being the least integer with
\* waitSeconds * rate >= |target - VMon| (rate is RUp when target > VMon, RDWn
\* otherwise); it sleeps exactly when its writes succeeded; target 100, VMon 20
\* and RUp 30 give a sleep of 5.
C8_SleepIsRampPlusMargin ==
    /\ (Planned /\ RateUsed > 0)
          => /\ (last.slept # << >>) = WritesDone
             /\ last.slept # << >>
                   => /\ Len(last.slept) = 1
                      /\ LET w == last.slept[1] - 2
                         IN  /\ w * RateUsed >= Delta
                             /\ (w - 1) * RateUsed < Delta
    /\ (last.op = "set_channel_HV" /\ last.slept # << >>) => (Planned /\ RateUsed > 0)
    /\ SleepFor(RampSeconds(100 - 20, 30)) = 5

\* a ramp whose time is not a whole number of seconds
C8_Witness ==
    /\ Planned
    /\ RateUsed > 0
    /\ Delta % RateUsed # 0
    /\ last.slept = <<(Delta \div RateUsed) + 3>>

-----------------------------------------------------------------------------
(* C9 *)

IsStatusRead(c) == IsRead(c, "Status")

\* (slot, ch) is a channel of a present board of self.slots
OnPresentBoard(slot, ch) ==
    /\ slot + 1 \in DOMAIN slots
    /\ slots[slot + 1] # NoBoard
    /\ ch \in 0..(slots[slot + 1] - 1)

\* the channels of the present boards of self.slots
PresentChannels ==
    UNION { { <<i - 1, c>> : c \in { c \in 0..(slots[i] - 1) : OnPresentBoard(i - 1, c) } }
            : i \in DOMAIN slots }

\* bit 0 of a status word
BitZeroSet(status) == status % 2 = 1

\* C9: power_down_all_channels issues a vendor write exactly after a Status read
\* whose bit 0 is set, and that write is Pw=False to the channel read; every call
\* goes to a channel of a present board; a run that returns has read every such
\* channel once.
C9_PowersOffOnlyOn ==
    last.op = "power_down_all_channels"
        => /\ \A i \in DOMAIN DeviceCalls :
                 LET c == DeviceCalls[i]
                 IN  /\ OnPresentBoard(c.slot, c.ch)
                     /\ IsWrite(c) \/ IsStatusRead(c)
                     /\ IsWrite(c)
                           => /\ c.param = "Pw" /\ c.value = 0
                              /\ i > 1
                              /\ IsStatusRead(DeviceCalls[i - 1])
                              /\ DeviceCalls[i - 1].res = "ok"
                              /\ BitZeroSet(DeviceCalls[i - 1].value)
                              /\ DeviceCalls[i - 1].slot = c.slot
                              /\ DeviceCalls[i - 1].ch = c.ch
                     /\ (IsStatusRead(c) /\ c.res = "ok" /\ BitZeroSet(c.value))
                           => /\ i < Len(DeviceCalls)
                              /\ IsWrite(DeviceCalls[i + 1])
           /\ last.exc = "none"
                 => \A sc \in PresentChannels :
                        Cardinality({ i \in DOMAIN DeviceCalls :
                                        /\ IsStatusRead(DeviceCalls[i])
                                        /\ DeviceCalls[i].slot = sc[1]
                                        /\ DeviceCalls[i].ch = sc[2] }) = 1

\* a crate with an empty slot and a board of two channels: one on, one off but
\* with another status bit set
C9_Witness ==
    /\ last.op = "power_down_all_channels"
    /\ last.exc = "none"
    /\ \E i \in DOMAIN slots : slots[i] = NoBoard
    /\ Len(Writes) = 1
    /\ \E i \in DOMAIN DeviceCalls :
          /\ IsStatusRead(DeviceCalls[i])
          /\ DeviceCalls[i].value = 8
          /\ DeviceCalls[i].res = "ok"

-----------------------------------------------------------------------------
(* C10 *)

\* C10 as stated: read_channel_param on a write-only parameter raises
\* ParamModeViolation and performs no vendor call.
C10_NoVendorCall ==
    (last.op = "read_channel_param" /\ ModeAnswered("WRONLY"))
        => /\ last.exc = "ParamModeViolation"
           /\ DeviceCalls = << >>

\* C10 amended: read_channel_param on a write-only parameter raises
\* ParamModeViolation and issues no vendor value read (get_ch_param); the vendor
\* calls it performs on the channel are the two metadata calls that tell it the
\* mode, get_ch_param_info and get_ch_param_prop.
C10_NoValueRead ==
    (last.op = "read_channel_param" /\ ModeAnswered("WRONLY"))
        => /\ last.exc = "ParamModeViolation"
           /\ ~Issued("get_ch_param")
           /\ Len(DeviceCalls) = 2
           /\ DeviceCalls[1].fn = "get_ch_param_info"
           /\ DeviceCalls[2].fn = "get_ch_param_prop"

C10_Witness ==
    /\ last.op = "read_channel_param"
    /\ ModeAnswered("WRONLY")
    /\ last.dev0 # NoDev
    /\ last.exc = "ParamModeViolation"
    /\ ~Issued("get_ch_param")

-----------------------------------------------------------------------------
(* C11 *)

\* the guard's own open was refused by the cool-down: called Closed while
\* time.time() is before _dispatched_until (a call changes neither)
RefusedByCoolDown == last.guarded /\ last.dev0 = NoDev /\ now < dispatched_until

\* the guard's own open failed at the vendor
VendorOpenFailed ==
    /\ last.guarded
    /\ last.dev0 = NoDev
    /\ last.log # << >>
    /\ last.log[1].fn = "open"
    /\ last.log[1].res = "err"

\* C11: a wrapped operation called Closed whose open is refused by the cool-down
\* raises the Dispatched error, one whose vendor open fails raises ConnectFailure,
\* a different error; in both cases the wrapped function does not run (no vendor
\* call but the one open that failed), nothing is retried and the connection
\* stays Closed.
C11_DispatchedIsDistinct ==
    /\ RefusedByCoolDown
          => /\ last.exc = "Dispatched"
             /\ last.log = << >>
             /\ device = NoDev
    /\ VendorOpenFailed
          => /\ last.exc = "ConnectFailure"
             /\ Len(last.log) = 1
             /\ device = NoDev

-----------------------------------------------------------------------------
(* C12 *)

\* C12: disconnect() never raises and always leaves device None: called Open it
\* issues the one vendor close, whether that succeeds or fails; called with no
\* device it issues no vendor call.
C12_DisconnectNeverRaises ==
    last.op = "disconnect"
        => /\ last.exc = "none"
           /\ device = NoDev
           /\ IF last.dev0 = NoDev
              THEN last.log = << >>
              ELSE Len(last.log) = 1 /\ last.log[1].fn = "close"

\* disconnect() called Open, the vendor close failing
C12_Witness ==
    /\ last.op = "disconnect"
    /\ last.dev0 # NoDev
    /\ last.log = <<ConnCall("close", "err")>>
    /\ last.exc = "none"
    /\ device = NoDev

-----------------------------------------------------------------------------
(* C13 *)

\* the connections the controller holds just before the i-th vendor call of the
\* last operation: the one it was called with, plus those opened, minus those closed
HeldBefore(i) ==
    (IF last.dev0 = NoDev THEN 0 ELSE 1)
        + Cardinality({ j \in 1..(i - 1) :
                          last.log[j].fn = "open" /\ last.log[j].res = "ok" })
        - Cardinality({ j \in 1..(i - 1) : last.log[j].fn = "close" })

\* C13: after any sequence of construction, reconfig, disconnect and wrapped
\* operations, no vendor open is issued while the controller holds an open
\* connection, so at most one connection is held at any point of an operation.
C13_AtMostOneConnection ==
    \A i \in DOMAIN last.log :
        /\ last.log[i].fn = "open" => HeldBefore(i) = 0
        /\ HeldBefore(i + 1) <= 1

====
